---------------------------- MODULE Spec2Model ----------------------------
(***************************************************************************)
(* A model of the ducky NIF bridge (src/priv/ducky_nif/src/lib.rs): the    *)
(* connection mutex, execute_query / execute_statement, close, the value   *)
(* decoder (value_to_term, encode_struct, normalize_to_micros) and the     *)
(* parameter encoder (term_to_duckdb_param).                               *)
(***************************************************************************)
EXTENDS Integers, Sequences, FiniteSets, TLC

(***************************************************************************)
(* Fixed-width integers.  TLC's integers are 32 bits wide, so an i64, u64  *)
(* or i32 of the program is held as a little-endian sequence of bytes in   *)
(* two's complement, wide enough (96 bits) to hold every exact             *)
(* intermediate result of the arithmetic below; the 64-bit result of the   *)
(* program is the low 8 bytes (Wrap64), and Fits64 tells whether the exact *)
(* result is representable in an i64.                                      *)
(***************************************************************************)
WZero == <<0, 0, 0, 0, 0, 0, 0, 0, 0, 0, 0, 0>>

RECURSIVE WNatFrom(_, _)

WNatFrom(n, i) == IF i > 12 THEN <<>> ELSE <<n % 256>> \o WNatFrom(n \div 256, i + 1)

\* a non-negative TLC integer as a wide integer
WNat(n) == WNatFrom(n, 1)

RECURSIVE WAddFrom(_, _, _, _)

WAddFrom(a, b, i, carry) ==
    IF i > 12 THEN <<>>
    ELSE <<(a[i] + b[i] + carry) % 256>>
         \o WAddFrom(a, b, i + 1, (a[i] + b[i] + carry) \div 256)

WAdd(a, b) == WAddFrom(a, b, 1, 0)

WNeg(a) == WAdd(<<255 - a[1], 255 - a[2], 255 - a[3], 255 - a[4], 255 - a[5], 255 - a[6],
              255 - a[7], 255 - a[8], 255 - a[9], 255 - a[10], 255 - a[11], 255 - a[12]>>, WNat(1))

WSub(a, b) == WAdd(a, WNeg(b))

WInt(n) == IF n < 0 THEN WNeg(WNat(0 - n)) ELSE WNat(n)

WIsNeg(a) == a[12] >= 128

WLess(a, b) == WIsNeg(WSub(a, b))

WLeq(a, b) == ~WLess(b, a)

RECURSIVE WMulFrom(_, _, _, _)

WMulFrom(a, k, i, carry) ==
    IF i > 12 THEN <<>>
    ELSE <<(a[i] * k + carry) % 256>> \o WMulFrom(a, k, i + 1, (a[i] * k + carry) \div 256)

\* the exact product of a wide integer and a constant 0 < k <= 1,000,000
WMul(a, k) == WMulFrom(a, k, 1, 0)

RECURSIVE WDivFrom(_, _, _, _)

WDivFrom(a, k, i, rem) ==
    IF i < 1 THEN <<>>
    ELSE WDivFrom(a, k, i - 1, (rem * 256 + a[i]) % k) \o <<(rem * 256 + a[i]) \div k>>

\* the quotient of a non-negative wide integer by a constant 0 < k <= 1000
WDivNat(a, k) == WDivFrom(a, k, 12, 0)

\* Rust's i64 `/`: the quotient truncated toward zero
WDivTrunc(a, k) == IF WIsNeg(a) THEN WNeg(WDivNat(WNeg(a), k)) ELSE WDivNat(a, k)

\* whether the exact value is representable as an i64
Fits64(a) ==
    \/ a[8] < 128 /\ \A i \in 9..12 : a[i] = 0
    \/ a[8] >= 128 /\ \A i \in 9..12 : a[i] = 255

\* the i64 a wrapping operation (or an `as i64` cast) leaves: the low 64 bits
Wrap64(a) ==
    SubSeq(a, 1, 8) \o (IF a[8] >= 128 THEN <<255, 255, 255, 255>> ELSE <<0, 0, 0, 0>>)

I64Max == <<255, 255, 255, 255, 255, 255, 255, 127, 0, 0, 0, 0>>

I64Min == <<0, 0, 0, 0, 0, 0, 0, 128, 255, 255, 255, 255>>

U64Max == <<255, 255, 255, 255, 255, 255, 255, 255, 0, 0, 0, 0>>

(***************************************************************************)
(* Host terms (rustler Term) and results.                                  *)
(***************************************************************************)
AtomT(a) == [tag |-> "atom", a |-> a]

IntT(i) == [tag |-> "int", i |-> i]

FloatT(f) == [tag |-> "float", f |-> f]

BinaryT(s) == [tag |-> "binary", s |-> s, utf8 |-> TRUE]

ListT(s) == [tag |-> "list", s |-> s]

TupleT(name, i) == [tag |-> "tuple", name |-> name, i |-> i]

MapT(m) == [tag |-> "map", m |-> m]

\* NifResult / Result values; a panic unwinds through every caller
Ok(t) == [r |-> "ok", term |-> t]

Err(msg) == [r |-> "err", msg |-> msg]

Panic == [r |-> "panic"]

\* rustler's map_new and Term::map_put (a put on an existing key replaces it)
map_new == <<>>

map_put(m, k, v) == [n \in (DOMAIN m) \cup {k} |-> IF n = k THEN v ELSE m[n]]

(***************************************************************************)
(* i64 arithmetic of the program.  `*` and `+` on i64 panic on overflow in *)
(* a build with overflow checks (oc) and wrap in a build without.          *)
(***************************************************************************)
i64_result(oc, exact) ==
    IF Fits64(exact) THEN [r |-> "ok", i |-> exact]
    ELSE IF oc THEN Panic
    ELSE [r |-> "ok", i |-> Wrap64(exact)]

i64_mul(oc, a, k) == i64_result(oc, WMul(a, k))

i64_add(oc, a, b) == i64_result(oc, WAdd(a, b))

i64_div(a, k) == WDivTrunc(a, k)

TimeUnits == {"Second", "Millisecond", "Microsecond", "Nanosecond"}

arrow_to_duckdb_time_unit(arrow_unit) ==
    CASE arrow_unit = "Second" -> "Second"
      [] arrow_unit = "Millisecond" -> "Millisecond"
      [] arrow_unit = "Microsecond" -> "Microsecond"
      [] arrow_unit = "Nanosecond" -> "Nanosecond"

normalize_to_micros(oc, time_unit, value) ==
    CASE time_unit = "Second" -> i64_mul(oc, value, 1000000)
      [] time_unit = "Millisecond" -> i64_mul(oc, value, 1000)
      [] time_unit = "Microsecond" -> [r |-> "ok", i |-> value]
      [] time_unit = "Nanosecond" -> [r |-> "ok", i |-> i64_div(value, 1000)]

\* (months as i64) * 30 * 24 * 60 * 60 * 1_000_000_000: the factors are all
\* positive, so a step overflows exactly when the exact product does not fit
month_nanos(oc, months) ==
    i64_result(oc, WMul(WMul(WMul(WMul(WMul(WMul(WMul(months,
        30), 24), 60), 60), 1000), 1000), 1000))

day_nanos(oc, days) ==
    i64_result(oc, WMul(WMul(WMul(WMul(WMul(WMul(days,
        24), 60), 60), 1000), 1000), 1000))

interval_total_nanos(oc, months, days, nanos) ==
    LET mn == month_nanos(oc, months)
        dn == day_nanos(oc, days)
    IN  IF mn.r = "panic" \/ dn.r = "panic" THEN Panic
        ELSE LET s1 == i64_add(oc, mn.i, dn.i)
             IN  IF s1.r = "panic" THEN Panic ELSE i64_add(oc, s1.i, nanos)

\* ValueRef::UBigInt(i) encoded through `i as i64`
ubigint_as_cast(i) == Ok(IntT(Wrap64(i)))

\* ValueRef::UBigInt(i): i64::try_from(i)
ubigint_to_term(i) ==
    IF Fits64(i) THEN Ok(IntT(i))
    ELSE Err("Integer overflow: UBigInt value exceeds i64::MAX")

\* ValueRef::Text(s): std::str::from_utf8(s)
text_to_term(v) == IF v.utf8 THEN Ok(BinaryT(v.s)) ELSE Err("Invalid UTF-8")

\* a ValueRef with no mapping encoded as null
unsupported_as_null(v) == Ok(AtomT("null"))

\* the last arm of value_to_term's match: a ValueRef with no mapping
unsupported_value(v) == Err("Unsupported ValueRef")

tagged_micros(name, n) == IF n.r = "panic" THEN Panic ELSE Ok(TupleT(name, n.i))

(***************************************************************************)
(* A struct value is the sequence of the StructArray's child columns at    *)
(* the row: each child has its field name, its validity bit at the row,    *)
(* its arrow DataType (with the time unit of a Timestamp / Time64) and the *)
(* value its array stores at the row.                                      *)
(***************************************************************************)
\* the concrete array type behind a column: as_primitive::<T>() panics when
\* the column is not a PrimitiveArray<T>
as_primitive_micros(field) == field.unit = "Microsecond"

\* the match on field.data_type(): the child ValueRef, "null" for a storage
\* type with no arm, or the panic of a failed downcast
unknown_child(field) == [r |-> "null"]

child_value_ref(field) ==
    CASE field.dtype = "Boolean" -> [r |-> "ok", v |-> [kind |-> "Boolean", b |-> field.cell.b]]
      [] field.dtype = "Int8" -> [r |-> "ok", v |-> [kind |-> "TinyInt", i |-> field.cell.i]]
      [] field.dtype = "Int16" -> [r |-> "ok", v |-> [kind |-> "SmallInt", i |-> field.cell.i]]
      [] field.dtype = "Int32" -> [r |-> "ok", v |-> [kind |-> "Int", i |-> field.cell.i]]
      [] field.dtype = "Int64" -> [r |-> "ok", v |-> [kind |-> "BigInt", i |-> field.cell.i]]
      [] field.dtype = "UInt8" -> [r |-> "ok", v |-> [kind |-> "UTinyInt", i |-> field.cell.i]]
      [] field.dtype = "UInt16" -> [r |-> "ok", v |-> [kind |-> "USmallInt", i |-> field.cell.i]]
      [] field.dtype = "UInt32" -> [r |-> "ok", v |-> [kind |-> "UInt", i |-> field.cell.i]]
      [] field.dtype = "UInt64" -> [r |-> "ok", v |-> [kind |-> "UBigInt", i |-> field.cell.i]]
      [] field.dtype = "Float32" -> [r |-> "ok", v |-> [kind |-> "Float", f |-> field.cell.f]]
      [] field.dtype = "Float64" -> [r |-> "ok", v |-> [kind |-> "Double", f |-> field.cell.f]]
      [] field.dtype = "Utf8" ->
            [r |-> "ok", v |-> [kind |-> "Text", s |-> field.cell.s, utf8 |-> TRUE]]
      [] field.dtype = "Binary" -> [r |-> "ok", v |-> [kind |-> "Blob", s |-> field.cell.s]]
      [] field.dtype = "Struct" ->
            [r |-> "ok", v |-> [kind |-> "Struct", fields |-> field.cell.fields]]
      [] field.dtype = "Timestamp" ->
            IF as_primitive_micros(field)
            THEN [r |-> "ok", v |-> [kind |-> "Timestamp",
                        unit |-> arrow_to_duckdb_time_unit(field.unit), i |-> field.cell.i]]
            ELSE Panic
      [] field.dtype = "Date32" -> [r |-> "ok", v |-> [kind |-> "Date32", i |-> field.cell.i]]
      [] field.dtype = "Time64" ->
            IF as_primitive_micros(field)
            THEN [r |-> "ok", v |-> [kind |-> "Time64",
                        unit |-> arrow_to_duckdb_time_unit(field.unit), i |-> field.cell.i]]
            ELSE Panic
      [] field.dtype = "Interval" ->
            [r |-> "ok", v |-> [kind |-> "Interval", months |-> field.cell.months,
                                days |-> field.cell.days, nanos |-> field.cell.nanos]]
      [] OTHER -> unknown_child(field)

RECURSIVE value_to_term(_, _), encode_struct_from(_, _, _, _)

\* the loop of encode_struct from field k on, with the map built so far
encode_struct_from(oc, fields, k, map) ==
    IF k > Len(fields) THEN Ok(MapT(map))
    ELSE LET field == fields[k]
         IN  IF field.isnull
             THEN encode_struct_from(oc, fields, k + 1,
                                     map_put(map, field.name, AtomT("null")))
             ELSE LET child == child_value_ref(field)
                  IN  IF child.r = "null"
                      THEN encode_struct_from(oc, fields, k + 1,
                                              map_put(map, field.name, AtomT("null")))
                      ELSE IF child.r # "ok" THEN child
                      ELSE LET term_value == value_to_term(oc, child.v)
                           IN  IF term_value.r # "ok" THEN term_value
                               ELSE encode_struct_from(oc, fields, k + 1,
                                        map_put(map, field.name, term_value.term))

encode_struct(oc, fields) == encode_struct_from(oc, fields, 1, map_new)

value_to_term(oc, value) ==
    CASE value.kind = "Null" -> Ok(AtomT("null"))
      [] value.kind = "Boolean" -> Ok(AtomT(IF value.b THEN "true" ELSE "false"))
      [] value.kind \in {"TinyInt", "SmallInt", "Int", "BigInt", "HugeInt"} -> Ok(IntT(value.i))
      [] value.kind \in {"UTinyInt", "USmallInt", "UInt"} -> Ok(IntT(value.i))
      [] value.kind = "UBigInt" -> ubigint_to_term(value.i)
      [] value.kind \in {"Float", "Double"} -> Ok(FloatT(value.f))
      [] value.kind = "Text" -> text_to_term(value)
      [] value.kind = "Blob" -> Ok(ListT(value.s))
      [] value.kind = "Timestamp" ->
            tagged_micros("timestamp", normalize_to_micros(oc, value.unit, value.i))
      [] value.kind = "Date32" -> Ok(TupleT("date", value.i))
      [] value.kind = "Time64" ->
            tagged_micros("time", normalize_to_micros(oc, value.unit, value.i))
      [] value.kind = "Interval" ->
            tagged_micros("interval",
                interval_total_nanos(oc, value.months, value.days, value.nanos))
      [] value.kind = "Struct" -> encode_struct(oc, value.fields)
      [] OTHER -> unsupported_value(value)

(***************************************************************************)
(* execute_statement's inner loop over the columns of one row: get_ref,    *)
(* value_to_term, and the map_err that replaces every decode error.        *)
(***************************************************************************)
DatabaseError(msg) == [r |-> "error", kind |-> "DatabaseError", msg |-> msg]

convert_error(e) == DatabaseError("Failed to convert value")

RECURSIVE decode_row_from(_, _, _, _, _)

decode_row_from(oc, row, n, i, row_values) ==
    IF i > n THEN [r |-> "ok", values |-> row_values]
    ELSE IF i > Len(row) THEN DatabaseError("Invalid column index")
    ELSE LET term == value_to_term(oc, row[i])
         IN  IF term.r = "panic" THEN Panic
             ELSE IF term.r = "err" THEN convert_error(term)
             ELSE decode_row_from(oc, row, n, i + 1, Append(row_values, term.term))

decode_row(oc, row, detected_column_count) ==
    decode_row_from(oc, row, detected_column_count, 1, <<>>)

(***************************************************************************)
(* Inputs of the decoder: raw values on both sides of every boundary of    *)
(* the arithmetic, and struct values built from child columns of every     *)
(* kind (null, mapped, unmapped, failing, nested).                         *)
(***************************************************************************)
MaxFields == 2

MaxDepth == 1

\* 9,223,372,036,854 = floor(i64::MAX / 10^6); 9,223,372,036,854,775 = floor(i64::MAX / 10^3)
MaxSeconds == WAdd(WMul(WNat(9223372), 1000000), WNat(36854))

MaxMillis == WAdd(WMul(MaxSeconds, 1000), WNat(775))

I64Positive ==
    {WNat(1), WNat(999), WNat(1000), WNat(1500), WNat(1999), MaxSeconds,
     WAdd(MaxSeconds, WNat(1)), MaxMillis, WAdd(MaxMillis, WNat(1)), I64Max}

I64Samples == {WZero, I64Min} \cup I64Positive \cup {WNeg(v) : v \in I64Positive}

U64Samples == {WZero, WNat(1), I64Max, WAdd(I64Max, WNat(1)), U64Max}

I32Max == WNat(2147483647)

IntervalSamples ==
    {[kind |-> "Interval", months |-> m, days |-> d, nanos |-> n] :
        m \in {WZero, WNat(1), I32Max}, d \in {WZero, WNat(1), WNeg(I32Max)},
        n \in {WZero, I64Max}}

ScalarSamples ==
    {[kind |-> "Null"], [kind |-> "Boolean", b |-> TRUE], [kind |-> "Boolean", b |-> FALSE],
     [kind |-> "BigInt", i |-> I64Min], [kind |-> "UInt", i |-> WNat(7)],
     [kind |-> "Double", f |-> "1.5"], [kind |-> "Blob", s |-> "blob"],
     [kind |-> "Text", s |-> "abc", utf8 |-> TRUE],
     [kind |-> "Text", s |-> "bad", utf8 |-> FALSE],
     [kind |-> "Date32", i |-> WNat(19000)],
     [kind |-> "Decimal", s |-> "1.50"], [kind |-> "List", s |-> "[1]"]}
    \cup {[kind |-> "UBigInt", i |-> v] : v \in U64Samples}
    \cup {[kind |-> k, unit |-> u, i |-> v] :
            k \in {"Timestamp", "Time64"}, u \in TimeUnits, v \in I64Samples}
    \cup IntervalSamples

Column(name, dtype, unit, isnull, cell) ==
    [name |-> name, dtype |-> dtype, unit |-> unit, isnull |-> isnull, cell |-> cell]

\* child columns at a row, before their field names are given
ChildSamples ==
    {Column("", "Utf8", "none", FALSE, [s |-> "abc"]),
     Column("", "Utf8", "none", TRUE, [s |-> ""]),
     Column("", "Int64", "none", FALSE, [i |-> WInt(-1)]),
     Column("", "UInt64", "none", FALSE, [i |-> I64Max]),
     Column("", "UInt64", "none", FALSE, [i |-> U64Max]),
     Column("", "Boolean", "none", FALSE, [b |-> TRUE]),
     Column("", "Timestamp", "Microsecond", FALSE, [i |-> WInt(-1500)]),
     Column("", "Timestamp", "Second", FALSE, [i |-> WNat(1)]),
     Column("", "Time64", "Nanosecond", FALSE, [i |-> WNat(1500)]),
     Column("", "Interval", "none", FALSE, [months |-> WNat(1), days |-> WZero, nanos |-> WZero]),
     Column("", "Decimal128", "none", FALSE, [s |-> "1.50"]),
     Column("", "List", "none", TRUE, [s |-> "[]"])}

FieldNames == <<"a", "b", "c", "d">>

Named(cols) == [k \in 1..Len(cols) |-> [cols[k] EXCEPT !.name = FieldNames[k]]]

\* the flat structs: every sequence of 1..MaxFields child columns
FlatStructs == UNION {{Named(cols) : cols \in [1..n -> ChildSamples]} : n \in 1..MaxFields}

StructColumn(fields, isnull) == Column("", "Struct", "none", isnull, [fields |-> fields])

RECURSIVE StructsAt(_)

\* the struct values nested at most d levels below the top-level struct
StructsAt(d) ==
    IF d = 0 THEN FlatStructs
    ELSE LET inner == StructsAt(d - 1)
         IN  inner
             \cup {Named(<<StructColumn(fs, FALSE)>>) : fs \in inner}
             \cup {Named(<<Column("", "List", "none", FALSE, [s |-> "[1]"]),
                           StructColumn(fs, n)>>) : fs \in inner, n \in BOOLEAN}

StructSamples == {[kind |-> "Struct", fields |-> fs] : fs \in StructsAt(MaxDepth)}

DecodeInputs == ScalarSamples \cup StructSamples

(***************************************************************************)
(* The parameter encoder.  Host terms are tagged; each rustler decoder     *)
(* accepts exactly the terms of its type.                                  *)
(***************************************************************************)
atom_from_term(term) == term.tag = "atom"

decode_bool(term) == term.tag = "atom" /\ term.a \in {"true", "false"}

decode_i64(term) == term.tag = "int" /\ Fits64(term.i)

decode_f64(term) == term.tag = "float"

decode_String(term) == term.tag = "binary" /\ term.utf8

UnsupportedParameter ==
    DatabaseError("Unsupported parameter type: cannot convert term to DuckDB parameter")

\* a term of no supported type bound as null
unsupported_param_as_null(term) == [r |-> "ok", param |-> [kind |-> "Null"]]

\* the end of term_to_duckdb_param: no decoder accepted the term
unsupported_param(term) == UnsupportedParameter

term_to_duckdb_param(term) ==
    IF atom_from_term(term) /\ term.a \in {"null", "nil"}
    THEN [r |-> "ok", param |-> [kind |-> "Null"]]
    ELSE IF decode_bool(term)
    THEN [r |-> "ok", param |-> [kind |-> "Boolean", b |-> term.a = "true"]]
    ELSE IF decode_i64(term)
    THEN [r |-> "ok", param |-> [kind |-> "BigInt", i |-> term.i]]
    ELSE IF decode_f64(term)
    THEN [r |-> "ok", param |-> [kind |-> "Double", f |-> term.f]]
    ELSE IF decode_String(term)
    THEN [r |-> "ok", param |-> [kind |-> "Text", s |-> term.s, utf8 |-> TRUE]]
    ELSE unsupported_param(term)

RECURSIVE encode_params_from(_, _, _)

\* execute_query's loop over params_list: `?` returns at the first error
encode_params_from(params_list, i, params) ==
    IF i > Len(params_list) THEN [r |-> "ok", params |-> params]
    ELSE LET param == term_to_duckdb_param(params_list[i])
         IN  IF param.r # "ok" THEN param
             ELSE encode_params_from(params_list, i + 1, Append(params, param.param))

encode_params(params_list) == encode_params_from(params_list, 1, <<>>)

(***************************************************************************)
(* The engine, at its interface: what prepare, query, next and execute     *)
(* answer for each statement.  Where a set holds several outcomes the      *)
(* engine may answer with any of them (a failure that depends on the data, *)
(* on another connection, on resources).                                   *)
(***************************************************************************)
Statement(prepare, query, execute, next_error, columns, rows) ==
    [prepare |-> prepare, query |-> query, execute |-> execute,
     next_error |-> next_error, columns |-> columns, rows |-> rows]

Query(columns, rows) == Statement("ok", {"ok"}, {"ok", "error"}, {}, columns, rows)

NoResult(execute) == Statement("ok", {"not_a_query"}, execute, {}, <<>>, <<>>)

BigIntV(n) == [kind |-> "BigInt", i |-> WInt(n)]

TextV(s) == [kind |-> "Text", s |-> s, utf8 |-> TRUE]

StructV(cols) == [kind |-> "Struct", fields |-> Named(cols)]

Engine(sql) ==
    CASE sql = "SELEC 1" -> Statement("error", {}, {}, {}, <<>>, <<>>)
      [] sql = "CREATE TABLE t(x INT)" -> NoResult({"ok"})
      [] sql = "INSERT INTO t VALUES (?, ?, ?, ?, ?)" -> NoResult({"ok", "error"})
      [] sql = "SELECT 1" -> Query(<<"1">>, << <<BigIntV(1)>> >>)
      [] sql = "SELECT a, b FROM t WHERE a > ?" ->
            Query(<<"a", "b">>, << <<BigIntV(2), TextV("x")>>, <<[kind |-> "Null"], TextV("y")>> >>)
      [] sql = "SELECT x FROM t WHERE false" -> Query(<<"x">>, <<>>)
      [] sql = "SELECT u FROM big" ->
            Query(<<"u">>, << <<[kind |-> "UBigInt", i |-> I64Max]>>,
                              <<[kind |-> "UBigInt", i |-> U64Max]>> >>)
      [] sql = "SELECT id, price FROM items" ->
            Query(<<"id", "price">>, << <<BigIntV(1), [kind |-> "Decimal", s |-> "1.50"]>> >>)
      [] sql = "SELECT name FROM imported" ->
            Query(<<"name">>, << <<TextV("ok")>>, <<[kind |-> "Text", s |-> "bad", utf8 |-> FALSE]>> >>)
      [] sql = "SELECT s FROM structs" ->
            Query(<<"s">>, << <<StructV(<<
                Column("", "Utf8", "none", TRUE, [s |-> ""]),
                Column("", "Utf8", "none", FALSE, [s |-> "abc"]),
                Column("", "Decimal128", "none", FALSE, [s |-> "1.50"]),
                StructColumn(Named(<<Column("", "UInt64", "none", FALSE, [i |-> I64Max])>>),
                             FALSE)>>)>> >>)
      [] sql = "SELECT n, s FROM events" ->
            Query(<<"n", "s">>,
                  << <<BigIntV(1), StructV(<<Column("", "Timestamp", "Microsecond", FALSE,
                                                    [i |-> WNat(1500)])>>)>>,
                     <<BigIntV(2), StructV(<<Column("", "Timestamp", "Second", FALSE,
                                                    [i |-> WNat(1)])>>)>> >>)
      [] sql = "SELECT ts FROM secs" ->
            Query(<<"ts">>, << <<[kind |-> "Timestamp", unit |-> "Second", i |-> I64Max]>> >>)
      [] sql = "SELECT CAST(s AS INT) FROM t" ->
            Statement("ok", {"ok", "error"}, {"ok", "error"}, {2}, <<"CAST(s AS INTEGER)">>,
                      << <<BigIntV(1)>>, <<BigIntV(2)>> >>)

EngineMessage(sql, op) ==
    CASE op = "prepare" -> "Parser Error: syntax error at or near SELEC"
      [] op = "query" -> "Conversion Error: could not convert string to INT32"
      [] op = "next" -> "IO Error: could not read block"
      [] op = "execute" -> "Constraint Error: NOT NULL constraint failed"

GoodParams == <<AtomT("nil"), AtomT("true"), IntT(WInt(-7)), FloatT("1.5"), BinaryT("x")>>

ExecuteInputs ==
    {[sql |-> q, params |-> <<>>] :
        q \in {"SELEC 1", "CREATE TABLE t(x INT)", "SELECT 1", "SELECT x FROM t WHERE false",
               "SELECT u FROM big", "SELECT id, price FROM items",
               "SELECT name FROM imported", "SELECT s FROM structs",
               "SELECT n, s FROM events", "SELECT ts FROM secs",
               "SELECT CAST(s AS INT) FROM t"}}
    \cup {[sql |-> "SELECT a, b FROM t WHERE a > ?", params |-> <<IntT(WNat(1))>>]}
    \cup {[sql |-> "INSERT INTO t VALUES (?, ?, ?, ?, ?)", params |-> ps] :
            ps \in {GoodParams,
                    <<AtomT("null"), AtomT("false"), IntT(I64Max), AtomT("foo"), BinaryT("x")>>,
                    <<IntT(U64Max)>>,
                    <<BinaryT("x"), [tag |-> "binary", s |-> "bad", utf8 |-> FALSE]>>,
                    <<TupleT("pair", WNat(1))>>}}

(***************************************************************************)
(* The bridge: host threads calling execute_query and close on shared      *)
(* connections.                                                            *)
(***************************************************************************)
Conns == {"c1", "c2"}

Threads == {"t1", "t2"}

NoThread == "none"

\* the calls the host makes in one run
MaxCalls == 3

VARIABLES
    overflow_checks,  \* whether the build panics on integer overflow
    mutex,            \* per connection: the thread holding the guard, the poison flag
    applied,          \* per connection: the statements the engine has applied
    pc,               \* per thread: where its call is
    call,             \* per thread: the call's arguments
    stmt,             \* per thread: params, row cursor, raw_rows, detected_column_count
    ops,              \* per thread: the engine operations of the call, in order
    result,           \* per thread: what the call returned
    ncalls,           \* calls made so far
    dec_in,           \* decoder run: the value
    dec_out,          \* decoder run: value_to_term's result
    dec_row           \* decoder run: the result of decoding the one-column row

vars == <<overflow_checks, mutex, applied, pc, call, stmt, ops, result, ncalls,
          dec_in, dec_out, dec_row>>

bridge_vars == <<mutex, applied, pc, call, stmt, ops, result, ncalls>>

dec_vars == <<dec_in, dec_out, dec_row>>

NoValue == [r |-> "none"]

NoCall == [op |-> "none", conn |-> "none", sql |-> "", params_list |-> <<>>]

NoStmt == [params |-> <<>>, next |-> 1, raw_rows |-> <<>>, detected_column_count |-> 0]

PoisonError == "poisoned lock: another task failed inside"

\* a lock that never waits
can_lock_always(m) == TRUE

\* Mutex::lock: blocks while another thread holds the guard
can_lock(m) == m.holder = NoThread

\* a lock that takes the guard of a poisoned mutex
lock_ignores_poison(m) == "acquired"

\* Mutex::lock's result: Err(PoisonError) when a holder panicked
lock_result(m) == IF m.poisoned THEN "poisoned" ELSE "acquired"

\* a guard that outlives the call
guard_kept(m, panicking) == m

\* the MutexGuard's drop at the end of the call; unwinding poisons the mutex
drop_guard(m, panicking) == [holder |-> NoThread, poisoned |-> m.poisoned \/ panicking]

\* a call returns `res`: the guard it holds is dropped on the way out
Returns(t, res) ==
    /\ result' = [result EXCEPT ![t] = res]
    /\ pc' = [pc EXCEPT ![t] = "done"]
    /\ mutex' = [mutex EXCEPT ![call[t].conn] = drop_guard(@, res.r = "panic")]

Continues(t, next) ==
    /\ pc' = [pc EXCEPT ![t] = next]
    /\ UNCHANGED <<result, mutex>>

EngineOp(t, op, out) ==
    ops' = [ops EXCEPT ![t] = Append(@, [op |-> op, out |-> out, params |-> stmt[t].params])]

Init ==
    /\ overflow_checks \in BOOLEAN
    /\ mutex = [c \in Conns |-> [holder |-> NoThread, poisoned |-> FALSE]]
    /\ applied = [c \in Conns |-> 0]
    /\ pc = [t \in Threads |-> "idle"]
    /\ call = [t \in Threads |-> NoCall]
    /\ stmt = [t \in Threads |-> NoStmt]
    /\ ops = [t \in Threads |-> <<>>]
    /\ result = [t \in Threads |-> NoValue]
    /\ ncalls = 0
    /\ dec_in = NoValue
    /\ dec_out = NoValue
    /\ dec_row = NoValue

\* the host calls execute_query(conn, sql, params_list)
CallExecute(t, c, in) ==
    /\ pc[t] = "idle"
    /\ ncalls < MaxCalls
    /\ ncalls' = ncalls + 1
    /\ pc' = [pc EXCEPT ![t] = "lock"]
    /\ call' = [call EXCEPT ![t] = [op |-> "execute", conn |-> c, sql |-> in.sql,
                                    params_list |-> in.params]]
    /\ stmt' = [stmt EXCEPT ![t] = NoStmt]
    /\ ops' = [ops EXCEPT ![t] = <<>>]
    /\ result' = [result EXCEPT ![t] = NoValue]
    /\ UNCHANGED <<overflow_checks, mutex, applied, dec_vars>>

\* the host calls close(conn)
CallClose(t, c) ==
    /\ pc[t] = "idle"
    /\ ncalls < MaxCalls
    /\ ncalls' = ncalls + 1
    /\ pc' = [pc EXCEPT ![t] = "close_lock"]
    /\ call' = [call EXCEPT ![t] = [op |-> "close", conn |-> c, sql |-> "",
                                    params_list |-> <<>>]]
    /\ stmt' = [stmt EXCEPT ![t] = NoStmt]
    /\ ops' = [ops EXCEPT ![t] = <<>>]
    /\ result' = [result EXCEPT ![t] = NoValue]
    /\ UNCHANGED <<overflow_checks, mutex, applied, dec_vars>>

\* execute_query: conn.connection.lock().map_err(..)?
ExecLock(t) ==
    /\ pc[t] = "lock"
    /\ can_lock(mutex[call[t].conn])
    /\ IF lock_result(mutex[call[t].conn]) = "poisoned"
       THEN /\ result' = [result EXCEPT ![t] =
                    DatabaseError("Failed to lock connection: " \o PoisonError)]
            /\ pc' = [pc EXCEPT ![t] = "done"]
            /\ UNCHANGED mutex
       ELSE /\ mutex' = [mutex EXCEPT ![call[t].conn].holder = t]
            /\ pc' = [pc EXCEPT ![t] = "encode"]
            /\ UNCHANGED result
    /\ UNCHANGED <<overflow_checks, applied, call, stmt, ops, ncalls, dec_vars>>

\* execute_query: the loop converting params_list
ExecEncode(t) ==
    /\ pc[t] = "encode"
    /\ LET e == encode_params(call[t].params_list)
       IN  IF e.r = "ok"
           THEN /\ stmt' = [stmt EXCEPT ![t].params = e.params]
                /\ Continues(t, "prepare")
           ELSE /\ Returns(t, e)
                /\ UNCHANGED stmt
    /\ UNCHANGED <<overflow_checks, applied, call, ops, ncalls, dec_vars>>

\* execute_statement: connection.prepare(sql)?
Prepare(t) ==
    /\ pc[t] = "prepare"
    /\ LET out == Engine(call[t].sql).prepare
       IN  /\ EngineOp(t, "prepare", out)
           /\ IF out = "ok" THEN Continues(t, "query")
              ELSE Returns(t, DatabaseError(EngineMessage(call[t].sql, "prepare")))
    /\ UNCHANGED <<overflow_checks, applied, call, stmt, ncalls, dec_vars>>

\* execute_statement: match stmt.query(params) { Ok(rows_result) => .., Err(_) => .. }
RunQuery(t) ==
    /\ pc[t] = "query"
    /\ \E out \in Engine(call[t].sql).query :
          /\ EngineOp(t, "query", out)
          /\ Continues(t, IF out = "ok" THEN "rows" ELSE "fallback")
    /\ UNCHANGED <<overflow_checks, applied, call, stmt, ncalls, dec_vars>>

\* execute_statement: rows_result.next()? fails
FetchError(t) ==
    /\ pc[t] = "rows"
    /\ stmt[t].next \in Engine(call[t].sql).next_error
    /\ EngineOp(t, "next", "error")
    /\ Returns(t, DatabaseError(EngineMessage(call[t].sql, "next")))
    /\ UNCHANGED <<overflow_checks, applied, call, stmt, ncalls, dec_vars>>

\* execute_statement: one turn of `while let Some(row) = rows_result.next()?`
NextRow(t) ==
    /\ pc[t] = "rows"
    /\ stmt[t].next <= Len(Engine(call[t].sql).rows)
    /\ EngineOp(t, "next", "row")
    /\ LET row == Engine(call[t].sql).rows[stmt[t].next]
           count == IF stmt[t].detected_column_count = 0 THEN Len(row)
                    ELSE stmt[t].detected_column_count
           decoded == decode_row(overflow_checks, row, count)
       IN  IF decoded.r = "ok"
           THEN /\ stmt' = [stmt EXCEPT ![t].next = @ + 1,
                                        ![t].detected_column_count = count,
                                        ![t].raw_rows = Append(@, decoded.values)]
                /\ Continues(t, "rows")
           ELSE /\ Returns(t, decoded)
                /\ UNCHANGED stmt
    /\ UNCHANGED <<overflow_checks, applied, call, ncalls, dec_vars>>

\* execute_statement: the row stream is exhausted; the column names are read
Finish(t) ==
    /\ pc[t] = "rows"
    /\ stmt[t].next > Len(Engine(call[t].sql).rows)
    /\ EngineOp(t, "next", "end")
    /\ Returns(t, [r |-> "ok",
                   columns |-> SubSeq(Engine(call[t].sql).columns, 1,
                                      stmt[t].detected_column_count),
                   rows |-> stmt[t].raw_rows])
    /\ UNCHANGED <<overflow_checks, applied, call, stmt, ncalls, dec_vars>>

\* the Err arm hands the query's error back instead of executing
FallbackReturnsError(t) ==
    /\ pc[t] = "fallback"
    /\ Returns(t, DatabaseError(EngineMessage(call[t].sql, "query")))
    /\ UNCHANGED <<overflow_checks, applied, call, stmt, ops, ncalls, dec_vars>>

\* execute_statement: Err(_) => { stmt.execute(params)?; Ok((Vec::new(), Vec::new())) }
Fallback(t) ==
    /\ pc[t] = "fallback"
    /\ \E out \in Engine(call[t].sql).execute :
          /\ EngineOp(t, "execute", out)
          /\ IF out = "ok"
             THEN /\ applied' = [applied EXCEPT ![call[t].conn] = @ + 1]
                  /\ Returns(t, [r |-> "ok", columns |-> <<>>, rows |-> <<>>])
             ELSE /\ Returns(t, DatabaseError(EngineMessage(call[t].sql, "execute")))
                  /\ UNCHANGED applied
    /\ UNCHANGED <<overflow_checks, call, stmt, ncalls, dec_vars>>

\* close: conn.connection.lock().map_err(..)?
CloseLock(t) ==
    /\ pc[t] = "close_lock"
    /\ can_lock(mutex[call[t].conn])
    /\ IF lock_result(mutex[call[t].conn]) = "poisoned"
       THEN /\ result' = [result EXCEPT ![t] =
                    DatabaseError("Connection mutex poisoned: " \o PoisonError)]
            /\ pc' = [pc EXCEPT ![t] = "done"]
            /\ UNCHANGED mutex
       ELSE /\ mutex' = [mutex EXCEPT ![call[t].conn].holder = t]
            /\ pc' = [pc EXCEPT ![t] = "close_drop"]
            /\ UNCHANGED result
    /\ UNCHANGED <<overflow_checks, applied, call, stmt, ops, ncalls, dec_vars>>

\* close: drop(_guard); Ok(atoms::nil())
CloseDrop(t) ==
    /\ pc[t] = "close_drop"
    /\ Returns(t, Ok(AtomT("nil")))
    /\ UNCHANGED <<overflow_checks, applied, call, stmt, ops, ncalls, dec_vars>>

\* the host has the call's result; the thread is free for another call
Return(t) ==
    /\ pc[t] = "done"
    /\ pc' = [pc EXCEPT ![t] = "idle"]
    /\ call' = [call EXCEPT ![t] = NoCall]
    /\ stmt' = [stmt EXCEPT ![t] = NoStmt]
    /\ ops' = [ops EXCEPT ![t] = <<>>]
    /\ result' = [result EXCEPT ![t] = NoValue]
    /\ UNCHANGED <<overflow_checks, mutex, applied, ncalls, dec_vars>>

Next ==
    \E t \in Threads :
        \/ \E c \in Conns : \E in \in ExecuteInputs : CallExecute(t, c, in)
        \/ \E c \in Conns : CallClose(t, c)
        \/ ExecLock(t)
        \/ ExecEncode(t)
        \/ Prepare(t)
        \/ RunQuery(t)
        \/ FetchError(t)
        \/ NextRow(t)
        \/ Finish(t)
        \/ Fallback(t)
        \/ CloseLock(t)
        \/ CloseDrop(t)
        \/ Return(t)

Spec == Init /\ [][Next]_vars

(***************************************************************************)
(* The decoder on its own: a value is drawn, value_to_term is applied to   *)
(* it, and the row holding it alone is decoded as execute_statement does.  *)
(***************************************************************************)
InitDecode ==
    /\ overflow_checks \in BOOLEAN
    /\ mutex = [c \in Conns |-> [holder |-> NoThread, poisoned |-> FALSE]]
    /\ applied = [c \in Conns |-> 0]
    /\ pc = [t \in Threads |-> "idle"]
    /\ call = [t \in Threads |-> NoCall]
    /\ stmt = [t \in Threads |-> NoStmt]
    /\ ops = [t \in Threads |-> <<>>]
    /\ result = [t \in Threads |-> NoValue]
    /\ ncalls = 0
    /\ dec_in \in DecodeInputs
    /\ dec_out = NoValue
    /\ dec_row = NoValue

DecodeValue ==
    /\ dec_out = NoValue
    /\ dec_out' = value_to_term(overflow_checks, dec_in)
    /\ UNCHANGED <<overflow_checks, bridge_vars, dec_in, dec_row>>

DecodeRow ==
    /\ dec_row = NoValue
    /\ dec_row' = decode_row(overflow_checks, <<dec_in>>, 1)
    /\ UNCHANGED <<overflow_checks, bridge_vars, dec_in, dec_out>>

NextDecode == DecodeValue \/ DecodeRow

SpecDecode == InitDecode /\ [][NextDecode]_vars

(***************************************************************************)
(* Properties.                                                             *)
(***************************************************************************)
\* the threads whose execute call has the connection's engine handle
Using(c) ==
    {t \in Threads : /\ call[t].op = "execute"
                     /\ call[t].conn = c
                     /\ pc[t] \in {"encode", "prepare", "query", "rows", "fallback"}}

InFlight(t) == pc[t] \notin {"idle", "done"}

PoisonMessages ==
    {"Failed to lock connection: poisoned lock: another task failed inside",
     "Connection mutex poisoned: poisoned lock: another task failed inside"}

\* C1: the engine operations of one call on a connection never interleave
\* with another call's: after every step at most one call has the handle of a
\* connection, every engine operation is issued by the thread holding the
\* connection's guard while no other call has the handle, the guard is still
\* held after the operation unless the call has returned with it, and a close
\* gets past its lock only when no execute has the handle.
C1_CallsSerialized ==
    [][/\ \A c \in Conns : Cardinality(Using(c)') <= 1
       /\ \A t \in Threads :
            ops'[t] # ops[t] /\ ops'[t] # <<>> =>
                /\ mutex[call[t].conn].holder = t
                /\ Using(call[t].conn) = {t}
                /\ mutex'[call[t].conn].holder = t \/ pc'[t] = "done"
       /\ \A t \in Threads :
            pc[t] = "close_lock" /\ pc'[t] # "close_lock" => Using(call[t].conn) = {}
       /\ \A t \in Threads :
            pc'[t] = "close_drop" =>
                mutex'[call[t].conn].holder = t /\ Using(call[t].conn)' = {}]_vars

\* C1 witness: two calls on distinct connections are both in the middle of
\* their row streams
C1_Overlap ==
    \E t1, t2 \in Threads :
        /\ call[t1].conn # call[t2].conn
        /\ pc[t1] = "rows" /\ pc[t2] = "rows"
        /\ stmt[t1].raw_rows # <<>> /\ stmt[t2].raw_rows # <<>>

\* C2: a guard is only ever held by a call that is in flight on that
\* connection and past its lock; once a call has returned, with whatever
\* result, it holds no guard, and a connection with no call in flight is free.
C2_GuardReleased ==
    \A c \in Conns :
        /\ \A t \in Threads :
              mutex[c].holder = t =>
                  /\ call[t].conn = c
                  /\ pc[t] \in {"encode", "prepare", "query", "rows", "fallback", "close_drop"}
        /\ (\A t \in Threads : ~(InFlight(t) /\ call[t].conn = c)) =>
               mutex[c].holder = NoThread

\* C2 witness: a call has returned an error after engine operations, and
\* another call now holds the same connection's guard
C2_LaterCallProceeds ==
    \E t1, t2 \in Threads :
        /\ pc[t1] = "done" /\ result[t1].r = "error" /\ Len(ops[t1]) >= 2
        /\ mutex[call[t1].conn].holder = t2

\* C3: a poisoned connection stays poisoned and its guard free; every call
\* that reaches its lock on a poisoned connection can take the step, returns
\* DatabaseError with a poisoning message in that step, and has issued no
\* engine operation.
C3_PoisonedStaysPoisoned ==
    [][\A c \in Conns :
          mutex[c].poisoned =>
              /\ mutex'[c].poisoned
              /\ mutex'[c].holder = NoThread
              /\ \A t \in Threads :
                    call[t].conn = c /\ pc[t] \in {"lock", "close_lock"} =>
                        /\ ENABLED (ExecLock(t) \/ CloseLock(t))
                        /\ pc'[t] # pc[t] =>
                              /\ pc'[t] = "done"
                              /\ result'[t].r = "error"
                              /\ result'[t].kind = "DatabaseError"
                              /\ result'[t].msg \in PoisonMessages
                              /\ ops'[t] = <<>>
                              /\ applied' = applied]_vars

\* C3 witness: on a poisoned connection a close and an execute have both
\* returned the poisoning error
C3_PoisonReported ==
    \E t1, t2 \in Threads :
        /\ call[t1].op = "close" /\ call[t2].op = "execute"
        /\ call[t1].conn = call[t2].conn
        /\ mutex[call[t1].conn].poisoned
        /\ pc[t1] = "done" /\ pc[t2] = "done"
        /\ result[t1] = DatabaseError("Connection mutex poisoned: " \o PoisonError)
        /\ result[t2] = DatabaseError("Failed to lock connection: " \o PoisonError)

OkEmpty == [r |-> "ok", columns |-> <<>>, rows |-> <<>>]

\* C4: in an execute call the first engine operation is the prepare; a
\* failed prepare is the only operation of the call, which returns
\* DatabaseError with the engine's message; after a successful prepare the
\* statement is run as a query; when that run is rejected because the
\* statement produces no result set, the call goes on to run the statement
\* through execute with the same parameters, and returns empty columns and
\* rows if that succeeds and DatabaseError with the engine's message if not.
C4_Dispatch ==
    \A t \in Threads :
        call[t].op = "execute" /\ ops[t] # <<>> =>
            LET o == ops[t]
                sql == call[t].sql
            IN  /\ o[1].op = "prepare"
                /\ o[1].out = "error" =>
                      /\ Len(o) = 1
                      /\ pc[t] = "done"
                      /\ result[t] = DatabaseError(EngineMessage(sql, "prepare"))
                /\ Len(o) = 1 /\ o[1].out = "ok" => pc[t] = "query"
                /\ Len(o) >= 2 => o[1].out = "ok" /\ o[2].op = "query"
                /\ Len(o) >= 2 /\ o[2].out = "not_a_query" =>
                      \/ Len(o) = 2 /\ pc[t] = "fallback"
                      \/ /\ Len(o) = 3
                         /\ o[3].op = "execute"
                         /\ o[3].params = o[2].params
                         /\ o[3].params = stmt[t].params
                         /\ pc[t] = "done"
                         /\ o[3].out = "ok" => result[t] = OkEmpty
                         /\ o[3].out = "error" =>
                               result[t] = DatabaseError(EngineMessage(sql, "execute"))

\* C4 witness: a statement with bound parameters was rejected as a query, run
\* through execute, and the call returned empty columns and rows
C4_FallbackSucceeded ==
    \E t \in Threads :
        /\ pc[t] = "done" /\ result[t] = OkEmpty
        /\ Len(ops[t]) = 3
        /\ ops[t][2].out = "not_a_query" /\ ops[t][3].op = "execute"
        /\ Len(ops[t][3].params) = 5
        /\ applied[call[t].conn] = 1

\* C5: within one execute call, an engine operation that fails with a
\* genuine error (anything but the "not a query" rejection) is the call's
\* last engine operation, and the call returns that error with the engine's
\* message.
C5_NoRetryNoSwallow ==
    \A t \in Threads :
        \A k \in 1..Len(ops[t]) :
            ops[t][k].out = "error" =>
                /\ k = Len(ops[t])
                /\ pc[t] = "done"
                /\ result[t] = DatabaseError(EngineMessage(call[t].sql, ops[t][k].op))


\* the terms the five supported parameter types cover, and the bind value of each
Encodable(term) ==
    \/ term.tag = "atom" /\ term.a \in {"null", "nil", "true", "false"}
    \/ term.tag = "int" /\ WLeq(I64Min, term.i) /\ WLeq(term.i, I64Max)
    \/ term.tag = "float"
    \/ term.tag = "binary" /\ term.utf8

BindValue(term) ==
    CASE term.tag = "atom" /\ term.a \in {"null", "nil"} -> [kind |-> "Null"]
      [] term.tag = "atom" /\ term.a = "true" -> [kind |-> "Boolean", b |-> TRUE]
      [] term.tag = "atom" /\ term.a = "false" -> [kind |-> "Boolean", b |-> FALSE]
      [] term.tag = "int" -> [kind |-> "BigInt", i |-> term.i]
      [] term.tag = "float" -> [kind |-> "Double", f |-> term.f]
      [] term.tag = "binary" -> [kind |-> "Text", s |-> term.s, utf8 |-> TRUE]

\* what leaving the encoding loop must look like, the error being `unsupported`
EncodeStep(t, unsupported) ==
    LET ps == call[t].params_list
        bad == {i \in 1..Len(ps) : ~Encodable(ps[i])}
    IN  /\ pc[t] = "encode" /\ pc'[t] # "encode" =>
              IF bad = {}
              THEN /\ pc'[t] = "prepare"
                   /\ stmt'[t].params = [i \in 1..Len(ps) |-> BindValue(ps[i])]
              ELSE /\ pc'[t] = "done"
                   /\ result'[t].r = "error"
                   /\ result'[t].kind = unsupported
                   /\ result'[t].msg =
                        "Unsupported parameter type: cannot convert term to DuckDB parameter"
                   /\ ops'[t] = <<>>
                   /\ applied' = applied
                   /\ mutex'[call[t].conn].holder = NoThread
        /\ ops'[t] # ops[t] /\ ops'[t] # <<>> =>
              /\ bad = {}
              /\ ops'[t][Len(ops'[t])].params = [i \in 1..Len(ps) |-> BindValue(ps[i])]

MappedKinds ==
    {"Null", "Boolean", "TinyInt", "SmallInt", "Int", "BigInt", "HugeInt", "UTinyInt",
     "USmallInt", "UInt", "UBigInt", "Float", "Double", "Text", "Blob", "Timestamp",
     "Date32", "Time64", "Interval", "Struct"}

\* the top-level decode failures: no mapping, u64 above i64::MAX, invalid UTF-8
FailsDecode(v) ==
    \/ v.kind \notin MappedKinds
    \/ v.kind = "UBigInt" /\ WLess(I64Max, v.i)
    \/ v.kind = "Text" /\ ~v.utf8

Fetched(t) == Cardinality({k \in 1..Len(ops[t]) : ops[t][k].op = "next" /\ ops[t][k].out = "row"})

\* C9: when a column value of a fetched row fails to decode (the columns
\* before it having decoded), the call returns exactly
\* DatabaseError("Failed to convert value"), a result with no columns and no
\* rows; a call that returns rows returns every row of the statement, none of
\* its values was one that fails to decode, and a null in the result stands
\* for a null of the engine.
C9_DecodeFailureIsFatal ==
    \A t \in Threads :
        call[t].op = "execute" /\ pc[t] = "done" =>
            LET rows == Engine(call[t].sql).rows
                n == Fetched(t)
            IN  /\ n >= 1 =>
                    \A i \in 1..Len(rows[n]) :
                        /\ FailsDecode(rows[n][i])
                        /\ \A j \in 1..(i - 1) :
                              value_to_term(overflow_checks, rows[n][j]).r = "ok"
                        => /\ result[t] = DatabaseError("Failed to convert value")
                           /\ DOMAIN result[t] = {"r", "kind", "msg"}
                /\ result[t].r = "ok" /\ n >= 1 =>
                    /\ Len(result[t].rows) = Len(rows)
                    /\ \A j \in 1..Len(rows) : \A i \in 1..Len(rows[j]) :
                          /\ ~FailsDecode(rows[j][i])
                          /\ result[t].rows[j][i] = AtomT("null") => rows[j][i].kind = "Null"

\* C9 witness: the second row failed to decode after the first had been
\* decoded, and the call returned the error alone
C9_SecondRowFailed ==
    \E t \in Threads :
        /\ pc[t] = "done" /\ result[t] = DatabaseError("Failed to convert value")
        /\ Fetched(t) = 2 /\ Len(stmt[t].raw_rows) = 1


RECURSIVE ReachesBadU64(_, _)

\* the decode of the struct gets to an unsigned 64-bit field above i64::MAX:
\* the fields before it decode, at every level of nesting
ReachesBadU64(oc, fields) ==
    \E k \in 1..Len(fields) :
        /\ \A j \in 1..(k - 1) : encode_struct(oc, <<fields[j]>>).r = "ok"
        /\ ~fields[k].isnull
        /\ \/ fields[k].dtype = "UInt64" /\ WLess(I64Max, fields[k].cell.i)
           \/ fields[k].dtype = "Struct" /\ ReachesBadU64(oc, fields[k].cell.fields)

RECURSIVE U64FieldsKept(_, _)

\* in a decoded struct every unsigned 64-bit field is at most i64::MAX and
\* maps to the integer equal to it
U64FieldsKept(fields, m) ==
    \A k \in 1..Len(fields) :
        LET f == fields[k]
        IN  /\ ~f.isnull /\ f.dtype = "UInt64" =>
                /\ WLeq(WZero, f.cell.i) /\ WLeq(f.cell.i, I64Max)
                /\ m[f.name] = IntT(f.cell.i)
            /\ ~f.isnull /\ f.dtype = "Struct" => U64FieldsKept(f.cell.fields, m[f.name].m)

\* C7: an unsigned 64-bit value v decodes to the integer v when
\* v <= 2^63 - 1; when v >= 2^63 the decode fails and the row's conversion is
\* DatabaseError("Failed to convert value"); the same holds for an unsigned
\* 64-bit field of a struct, at any depth, which is never wrapped, truncated
\* or turned into null.
C7_UBigIntRangeChecked ==
    /\ dec_in.kind = "UBigInt" /\ dec_out # NoValue =>
          IF WLeq(dec_in.i, I64Max)
          THEN dec_out = Ok(IntT(dec_in.i)) /\ ~WIsNeg(dec_out.term.i)
          ELSE dec_out.r = "err"
    /\ dec_in.kind = "UBigInt" /\ dec_row # NoValue =>
          IF WLeq(dec_in.i, I64Max)
          THEN dec_row = [r |-> "ok", values |-> <<IntT(dec_in.i)>>]
          ELSE dec_row = DatabaseError("Failed to convert value")
    /\ dec_in.kind = "Struct" /\ dec_out # NoValue =>
          /\ dec_out.r = "ok" => U64FieldsKept(dec_in.fields, dec_out.term.m)
          /\ ReachesBadU64(overflow_checks, dec_in.fields) => dec_out.r = "err"
    /\ dec_in.kind = "Struct" /\ dec_row # NoValue
          /\ ReachesBadU64(overflow_checks, dec_in.fields) =>
              dec_row = DatabaseError("Failed to convert value")

\* C7 witness: a struct whose nested struct holds 2^64 - 1 in an unsigned
\* 64-bit field was decoded, and the row's conversion failed
C7_NestedU64MaxFailed ==
    /\ dec_in.kind = "Struct"
    /\ \E k \in 1..Len(dec_in.fields) :
          /\ dec_in.fields[k].dtype = "Struct" /\ ~dec_in.fields[k].isnull
          /\ \E n \in 1..Len(dec_in.fields[k].cell.fields) :
                LET f == dec_in.fields[k].cell.fields[n]
                IN  f.dtype = "UInt64" /\ ~f.isnull /\ f.cell.i = U64Max
    /\ dec_out.r = "err"
    /\ dec_row = DatabaseError("Failed to convert value")

\* C8: a timestamp or time of day with raw value v decodes, without
\* aborting, to the microsecond count v * 1,000,000 (seconds), v * 1,000
\* (milliseconds), v (microseconds) or v / 1,000 truncated toward zero
\* (nanoseconds), as an exact value and not one wrapped to 64 bits.
C8_ExactMicros ==
    dec_in.kind \in {"Timestamp", "Time64"} /\ dec_out # NoValue =>
        /\ dec_out.r = "ok"
        /\ dec_out.term.tag = "tuple"
        /\ dec_out.term.name = (IF dec_in.kind = "Timestamp" THEN "timestamp" ELSE "time")
        /\ LET v == dec_in.i
               micros == dec_out.term.i
               rem == WSub(v, WMul(micros, 1000))
           IN  CASE dec_in.unit = "Second" -> micros = WMul(v, 1000000)
                 [] dec_in.unit = "Millisecond" -> micros = WMul(v, 1000)
                 [] dec_in.unit = "Microsecond" -> micros = v
                 [] dec_in.unit = "Nanosecond" ->
                       IF WIsNeg(v) THEN WLess(WInt(-1000), rem) /\ WLeq(rem, WZero)
                       ELSE WLeq(WZero, rem) /\ WLess(rem, WNat(1000))

MappedTypes ==
    {"Boolean", "Int8", "Int16", "Int32", "Int64", "UInt8", "UInt16", "UInt32", "UInt64",
     "Float32", "Float64", "Utf8", "Binary", "Struct", "Timestamp", "Date32", "Time64",
     "Interval"}

\* the scalar a child column of a mapped storage type holds, its time unit
\* the one of the child's storage type
ScalarOf(f) ==
    CASE f.dtype = "Boolean" -> [kind |-> "Boolean", b |-> f.cell.b]
      [] f.dtype = "Int8" -> [kind |-> "TinyInt", i |-> f.cell.i]
      [] f.dtype = "Int16" -> [kind |-> "SmallInt", i |-> f.cell.i]
      [] f.dtype = "Int32" -> [kind |-> "Int", i |-> f.cell.i]
      [] f.dtype = "Int64" -> [kind |-> "BigInt", i |-> f.cell.i]
      [] f.dtype = "UInt8" -> [kind |-> "UTinyInt", i |-> f.cell.i]
      [] f.dtype = "UInt16" -> [kind |-> "USmallInt", i |-> f.cell.i]
      [] f.dtype = "UInt32" -> [kind |-> "UInt", i |-> f.cell.i]
      [] f.dtype = "UInt64" -> [kind |-> "UBigInt", i |-> f.cell.i]
      [] f.dtype = "Float32" -> [kind |-> "Float", f |-> f.cell.f]
      [] f.dtype = "Float64" -> [kind |-> "Double", f |-> f.cell.f]
      [] f.dtype = "Utf8" -> [kind |-> "Text", s |-> f.cell.s, utf8 |-> TRUE]
      [] f.dtype = "Binary" -> [kind |-> "Blob", s |-> f.cell.s]
      [] f.dtype = "Timestamp" -> [kind |-> "Timestamp", unit |-> f.unit, i |-> f.cell.i]
      [] f.dtype = "Date32" -> [kind |-> "Date32", i |-> f.cell.i]
      [] f.dtype = "Time64" -> [kind |-> "Time64", unit |-> f.unit, i |-> f.cell.i]
      [] f.dtype = "Interval" ->
            [kind |-> "Interval", months |-> f.cell.months, days |-> f.cell.days,
             nanos |-> f.cell.nanos]

RECURSIVE ScalarsDecode(_, _)

\* every non-null scalar field of a mapped type has a decode, at every depth
ScalarsDecode(oc, fields) ==
    \A k \in 1..Len(fields) :
        LET f == fields[k]
        IN  ~f.isnull /\ f.dtype \in MappedTypes =>
                IF f.dtype = "Struct" THEN ScalarsDecode(oc, f.cell.fields)
                ELSE value_to_term(oc, ScalarOf(f)).r = "ok"

RECURSIVE StructDecodesTo(_, _, _)

StructDecodesTo(oc, fields, term) ==
    /\ term.tag = "map"
    /\ DOMAIN term.m = {fields[k].name : k \in 1..Len(fields)}
    /\ \A k \in 1..Len(fields) :
          LET f == fields[k]
          IN  IF f.isnull \/ f.dtype \notin MappedTypes THEN term.m[f.name] = AtomT("null")
              ELSE IF f.dtype = "Struct" THEN StructDecodesTo(oc, f.cell.fields, term.m[f.name])
              ELSE term.m[f.name] = value_to_term(oc, ScalarOf(f)).term

\* C10: a struct decodes to a mapping with one entry per child field, keyed
\* by field name: null for a field that is null at the row, null for a field
\* whose storage type has no mapping, the decode of the scalar for a field
\* whose storage type has one, and the same again for a nested struct.
C10_StructDecode ==
    /\ dec_in.kind = "Struct"
    /\ dec_out # NoValue
    /\ ScalarsDecode(overflow_checks, dec_in.fields)
    => /\ dec_out.r = "ok"
       /\ StructDecodesTo(overflow_checks, dec_in.fields, dec_out.term)


\* C11: a successful execute returns a positionally aligned result: every
\* returned row has as many values as there are returned column names, the
\* i-th value of the j-th returned row is the decode of the i-th column of
\* the j-th row the engine produced, every engine row is returned, the
\* column names are those of the prepared statement in column order, and a
\* statement that returns no result set yields empty columns and empty rows.
C11_PositionallyAligned ==
    \A t \in Threads :
        call[t].op = "execute" /\ pc[t] = "done" /\ result[t].r = "ok" =>
            LET e == Engine(call[t].sql)
                res == result[t]
            IN  /\ \A j \in 1..Len(res.rows) : Len(res.rows[j]) = Len(res.columns)
                /\ Len(res.rows) = Len(e.rows)
                /\ \A j \in 1..Len(res.rows) : \A i \in 1..Len(res.rows[j]) :
                      Ok(res.rows[j][i]) = value_to_term(overflow_checks, e.rows[j][i])
                /\ res.columns = e.columns
                /\ "not_a_query" \in e.query => res = OkEmpty


=============================================================================
